---- MODULE Spec2Model ----
(***************************************************************************)
(* Model of bin/out.js of github-webhook-resource: one invocation reads a  *)
(* JSON document from stdin, validates it, composes the callback URL,      *)
(* lists the hooks registered on the repository, and creates, updates,     *)
(* keeps or deletes the hook whose config matches the desired config.      *)
(* Invocations (processes) run one after another against the same remote   *)
(* repository.                                                             *)
(***************************************************************************)
EXTENDS Integers, Sequences, FiniteSets, TLC

VARIABLES
    remote,        \* hooks registered on the remote repository, in list order
    nextId,        \* id the remote gives to the next hook it creates
    remote0,       \* history: the remote at the start of the current invocation
    run,           \* number of the current invocation (process)
    pc,            \* "stdin" | "list" | "write" | "exited"
    op,            \* params.operation of the current invocation
    body,          \* request body built by processWebhook (lines 94-98)
    existingHook,  \* result of existingHookList.find (line 101)
    action,        \* history: the branch of the switch taken (lines 103-122)
    pending,       \* remote requests issued and not yet answered
    calls,         \* history: remote requests issued by this invocation
    hist,          \* history: observable events of this invocation, in order
    stdout,        \* what console.log wrote
    stderr,        \* what console.error (and the runtime) wrote
    exit,          \* exit status of the process, Running while it runs
    prev,          \* history: summary of the previous invocation
    input,         \* history: what stdin.on('end') read (stdin and env), kept
                   \* until processWebhook resumes after its await
    procs          \* the invocations that run at the same time (SpecConc)

vars == <<remote, nextId, remote0, run, pc, op, body, existingHook,
          action, pending, calls, hist, stdout, stderr, exit, prev, input,
          procs>>

None == "none"

----------------------------------------------------------------------------
(* Bounds of the model *)

MaxEvents == 2      \* longest event list, in the input and on a listed hook
MaxHooks == 1       \* hooks registered before the first invocation
MaxRuns == 2        \* invocations run one after another
MaxInputEvents == 4 \* longest params.events of SpecInputs
MaxVars == 2        \* most entries of an instance-variables object (SpecInputs)
MaxList == 2        \* longest hook list given to the matcher (SpecMatch)

EventNames == {"push", "pull_request"}

RECURSIVE SeqsUpTo(_, _)
SeqsUpTo(S, n) ==
    IF n = 0 THEN {<<>>}
    ELSE LET shorter == SeqsUpTo(S, n - 1)
         IN  shorter \cup {Append(s, x) : s \in {t \in shorter : Len(t) = n - 1}, x \in S}

EventLists == SeqsUpTo(EventNames, MaxEvents)

\* The event names and lists of the invocations run on the inputs in full
\* (SpecInputs).
InputEventNames == EventNames \cup {"issues"}
InputEventLists == SeqsUpTo(InputEventNames, MaxInputEvents)

----------------------------------------------------------------------------
(* Pure helpers of out.js *)

\* [...new Set(events)] (line 43): distinct elements, first occurrence order.
RECURSIVE Dedup(_)
Dedup(s) ==
    IF s = <<>> THEN <<>>
    ELSE LET init == Dedup(SubSeq(s, 1, Len(s) - 1))
             last == s[Len(s)]
         IN  IF \E i \in DOMAIN init : init[i] = last THEN init
             ELSE Append(init, last)

\* Variant: the default replaces only an undefined events, not an empty list.
NormalizeEventsUndefinedOnly(events) ==
    Dedup(IF events = <<>> THEN <<"push">> ELSE events[1])

\* Lines 38-43: default ['push'] when events is undefined or empty, then dedup.
\* params.events is <<list>>, or <<>> when the input has no events.
NormalizeEvents(events) ==
    Dedup(IF events = <<>> \/ Len(events[1]) = 0 THEN <<"push">> ELSE events[1])

\* JavaScript string order on the event names ("pull_request" < "push").
StrLess(a, b) ==
    LET rank == [e \in InputEventNames |->
                    IF e = "issues" THEN 0 ELSE IF e = "pull_request" THEN 1 ELSE 2]
    IN  rank[a] < rank[b]

\* _.sortBy(list): ascending, stable (insertion of each element in turn).
RECURSIVE SortBy(_)
SortBy(s) ==
    IF s = <<>> THEN <<>>
    ELSE LET sorted == SortBy(SubSeq(s, 1, Len(s) - 1))
             x == s[Len(s)]
             k == Cardinality({i \in DOMAIN sorted : ~StrLess(x, sorted[i])})
         IN  SubSeq(sorted, 1, k) \o <<x>> \o SubSeq(sorted, k + 1, Len(sorted))

\* !_.isEqual(_.sortBy(existingHook.events), _.sortBy(body.events)) (line 107)
EventsDiffer(existingEvents, desiredEvents) ==
    SortBy(existingEvents) # SortBy(desiredEvents)

\* Variant: _.isEqual in place of _.isMatch, the configs compared in full.
IsMatchExact(object, source) ==
    DOMAIN object = DOMAIN source /\ \A k \in DOMAIN source : object[k] = source[k]

\* _.isMatch(object, source) (line 101): every key of source is in object
\* with an equal value.
IsMatch(object, source) ==
    \A k \in DOMAIN source : k \in DOMAIN object /\ object[k] = source[k]

\* Variant: when some hook matches, the head of the list is returned.
FindHookFirstListed(list, config) ==
    LET hits == {i \in DOMAIN list : IsMatch(list[i].config, config)}
    IN  IF hits = {} THEN <<>> ELSE <<list[1]>>

\* Variant: the last matching hook of the list, not the first.
FindHookLast(list, config) ==
    LET hits == {i \in DOMAIN list : IsMatch(list[i].config, config)}
    IN  IF hits = {} THEN <<>>
        ELSE <<list[CHOOSE i \in hits : \A j \in hits : i >= j]>>

\* existingHookList.find(hook => _.isMatch(hook.config, config)) (line 101).
\* The result is <<hook>>, or <<>> for undefined.
FindHook(list, config) ==
    LET hits == {i \in DOMAIN list : IsMatch(list[i].config, config)}
    IN  IF hits = {} THEN <<>>
        ELSE <<list[CHOOSE i \in hits : \A j \in hits : i <= j]>>

\* result.id.toString() (line 201): the id as a string, never the number.
IdToString(id) == <<"str", id>>

\* emit (lines 198-209): the object written to stdout.
Output(result) == [version |-> [id |-> IdToString(result.id)]]

\* Date.now() (line 117): the clock of the invocation; far from any hook id.
DateNow == 1000 + run

----------------------------------------------------------------------------
(* URL Composer (lines 48-79).  A URL is the sequence of its pieces. *)

\* A JSON text: absent (the variable is not set), malformed, or the text of
\* an object, the sequence of its entries in Object.entries order.
NoText == [present |-> FALSE, wellFormed |-> FALSE, json |-> <<>>]
Malformed == [present |-> TRUE, wellFormed |-> FALSE, json |-> <<>>]
TextOf(entries) == [present |-> TRUE, wellFormed |-> TRUE, json |-> entries]

\* JSON.parse(text)
JsonParse(text) ==
    IF text.wellFormed THEN [ok |-> TRUE, value |-> text.json]
    ELSE [ok |-> FALSE, value |-> <<>>]

\* `&vars.${key}="${value}"` (lines 63, 72) for every entry of an object.
RECURSIVE Fragments(_)
Fragments(entries) ==
    IF entries = <<>> THEN <<>>
    ELSE <<"&vars.", entries[1][1], "=", "\"", entries[1][2], "\"">>
         \o Fragments(Tail(entries))

\* Variant: the two objects are merged, an entry of the params replacing the
\* ambient entry of the same key.
BuildInstanceVariablesMerged(params, env) ==
    LET ambient == IF env.BUILD_PIPELINE_INSTANCE_VARS.present
                   THEN JsonParse(env.BUILD_PIPELINE_INSTANCE_VARS)
                   ELSE [ok |-> TRUE, value |-> <<>>]
        entries == IF params.pipeline_instance_vars # <<>>
                   THEN params.pipeline_instance_vars[1]
                   ELSE <<>>
        kept == SelectSeq(ambient.value,
                          LAMBDA e : \A i \in DOMAIN entries : entries[i][1] # e[1])
    IN  IF ~ambient.ok THEN [ok |-> FALSE, value |-> <<>>]
        ELSE [ok |-> TRUE, value |-> Fragments(kept) \o Fragments(entries)]

\* buildInstanceVariables (lines 57-79): ambient fragments, then the params'
\* fragments; throws on a malformed BUILD_PIPELINE_INSTANCE_VARS.
\* params.pipeline_instance_vars is <<object>>, or <<>> when not given.
BuildInstanceVariables(params, env) ==
    LET ambient == IF env.BUILD_PIPELINE_INSTANCE_VARS.present
                   THEN JsonParse(env.BUILD_PIPELINE_INSTANCE_VARS)
                   ELSE [ok |-> TRUE, value |-> <<>>]
        own == IF params.pipeline_instance_vars # <<>>
               THEN Fragments(params.pipeline_instance_vars[1])
               ELSE <<>>
    IN  IF ~ambient.ok THEN [ok |-> FALSE, value |-> <<>>]
        ELSE [ok |-> TRUE, value |-> Fragments(ambient.value) \o own]

\* encodeURI on the pieces used here: only the double quote is escaped.
EncodeURI(url) ==
    [i \in DOMAIN url |-> IF url[i] = "\"" THEN "%22" ELSE url[i]]

\* buildUrl (lines 48-55)
BuildUrl(source, params, env) ==
    LET instanceVars == BuildInstanceVariables(params, env)
        base == IF source.concourse_url # None THEN source.concourse_url
                ELSE env.ATC_EXTERNAL_URL
        pipeline == IF params.pipeline # None THEN params.pipeline
                    ELSE env.BUILD_PIPELINE_NAME
    IN  IF ~instanceVars.ok THEN [ok |-> FALSE, value |-> <<>>]
        ELSE [ok |-> TRUE,
              value |-> EncodeURI(
                  <<base, "/api/v1/teams/", env.BUILD_TEAM_NAME, "/pipelines/",
                    pipeline, "/resources/", params.resource_name,
                    "/check/webhook?webhook_token=", params.webhook_token>>
                  \o instanceVars.value)]

\* Lines 89-92: the desired hook config.
HookConfig(url) == ("url" :> url) @@ ("content-type" :> "json")

\* Lines 94-98: the request body.
Body(url, events) == [name |-> "web", config |-> HookConfig(url), events |-> events]
----------------------------------------------------------------------------
(* Inputs of an invocation: the stdin text and the environment *)

EmptyInput == [empty |-> TRUE, wellFormed |-> FALSE, doc |-> <<>>]
MalformedInput == [empty |-> FALSE, wellFormed |-> FALSE, doc |-> <<>>]
Document(resourceConfig) ==
    [empty |-> FALSE, wellFormed |-> TRUE, doc |-> <<resourceConfig>>]

Operations == {"create", "delete", "other"}

InstanceVars == <<<<"env", "prod">>>>

DefaultEnv ==
    [BUILD_TEAM_NAME |-> "t", BUILD_PIPELINE_NAME |-> "p",
     ATC_EXTERNAL_URL |-> "https://atc.example.com",
     BUILD_PIPELINE_INSTANCE_VARS |-> NoText]

BadEnv == [DefaultEnv EXCEPT !.BUILD_TEAM_NAME = None]

Sources ==
    [concourse_url : {None}, github_api : {"https://api.github.com"},
     github_token : {"secret"}]

GoodParams ==
    [org : {"o"}, repo : {"r"}, operation : Operations, pipeline : {None},
     resource_name : {"res"}, webhook_token : {"tok"},
     events : {<<>>} \cup {<<l>> : l \in EventLists},
     pipeline_instance_vars : {<<>>}]

\* BUILD_PIPELINE_INSTANCE_VARS with params.pipeline_instance_vars: neither
\* set, the ambient text malformed, both set.
InstanceVarInputs ==
    {<<NoText, <<>>>>, <<Malformed, <<>>>>, <<TextOf(InstanceVars), <<InstanceVars>>>>}

\* Inputs that pass validation: every operation and event list without
\* instance variables, and every operation with the default events for each
\* kind of instance variables.
GoodInputs ==
    {[stdin |-> Document([source |-> s,
                          params |-> [p EXCEPT !.pipeline_instance_vars = v[2]]]),
      env |-> [DefaultEnv EXCEPT !.BUILD_PIPELINE_INSTANCE_VARS = v[1]]] :
        s \in Sources,
        p \in GoodParams,
        v \in InstanceVarInputs} \ 
    {[stdin |-> Document([source |-> s,
                          params |-> [p EXCEPT !.pipeline_instance_vars = v[2]]]),
      env |-> [DefaultEnv EXCEPT !.BUILD_PIPELINE_INSTANCE_VARS = v[1]]] :
        s \in Sources,
        p \in {q \in GoodParams : q.events # <<>>},
        v \in InstanceVarInputs \ {<<NoText, <<>>>>}}

DefaultConfig ==
    [source |-> CHOOSE x \in Sources : TRUE,
     params |-> [org |-> "o", repo |-> "r", operation |-> "create",
                 pipeline |-> None, resource_name |-> "res",
                 webhook_token |-> "tok", events |-> <<>>,
                 pipeline_instance_vars |-> <<>>]]

BadConfig == [DefaultConfig EXCEPT !.params.repo = None]

Inputs ==
    {[stdin |-> EmptyInput, env |-> DefaultEnv],
     [stdin |-> MalformedInput, env |-> DefaultEnv],
     [stdin |-> Document(DefaultConfig), env |-> BadEnv],
     [stdin |-> Document(BadConfig), env |-> DefaultEnv]}
    \cup GoodInputs

\* validate.env (./validate, line 28): the build metadata must be set.
ValidateEnv(env) ==
    /\ env.BUILD_TEAM_NAME # None
    /\ env.BUILD_PIPELINE_NAME # None
    /\ env.ATC_EXTERNAL_URL # None

\* validate.config (./validate, line 29): the required fields must be set.
ValidateConfig(resourceConfig) ==
    /\ resourceConfig.source.github_api # None
    /\ resourceConfig.source.github_token # None
    /\ resourceConfig.params.org # None
    /\ resourceConfig.params.repo # None
    /\ resourceConfig.params.resource_name # None
    /\ resourceConfig.params.webhook_token # None
    /\ resourceConfig.params.operation # None

----------------------------------------------------------------------------
(* The remote repository (the REST hook endpoint) *)

\* The remote adds its own fields to the config it stores.
Stored(id, b) ==
    [id |-> id, config |-> b.config @@ ("insecure_ssl" :> "0"), events |-> b.events]

RemoteCreate(hooks, id, b) == Append(hooks, Stored(id, b))

RemoteUpdate(hooks, id, b) ==
    [i \in DOMAIN hooks |-> IF hooks[i].id = id THEN Stored(id, b) ELSE hooks[i]]

RemoteDelete(hooks, id) == SelectSeq(hooks, LAMBDA h : h.id # id)

HasHook(hooks, id) == \E i \in DOMAIN hooks : hooks[i].id = id

\* URLs a hook registered before the first invocation may point at.
KnownUrls ==
    {BuildUrl(in.stdin.doc[1].source, in.stdin.doc[1].params, in.env).value :
        in \in {x \in GoodInputs :
                   BuildUrl(x.stdin.doc[1].source, x.stdin.doc[1].params, x.env).ok}}

\* The URL composed for the default config and environment.
DefaultUrl == BuildUrl(DefaultConfig.source, DefaultConfig.params, DefaultEnv).value

\* Configs of the hooks registered before the first invocation: each known
\* URL as the program writes it, and the default one as the remote stores it.
InitialConfigs ==
    {HookConfig(u) : u \in KnownUrls}
    \cup {HookConfig(DefaultUrl) @@ ("insecure_ssl" :> "0")}

InitialRemotes ==
    {r \in SeqsUpTo([id : 1..MaxHooks, config : InitialConfigs, events : EventLists], MaxHooks) :
        \A i \in DOMAIN r : r[i].id = i}

\* Outcomes of a remote call: a 2xx response; a non-2xx response with a JSON
\* body, with a status other than 404 or with status 404; a failure whose
\* err.error is no JSON text (a transport failure).
Outcomes == {"ok", "status", "status404", "transport"}

\* The failures whose err.error JSON.parse reads (line 186).
JsonErrors == {"status", "status404"}

\* What callGithub's catch logs for such a failure: the error (lines
\* 184-186) and, on status 404, the hint about the token (lines 187-193).
CatchLog(outcome) ==
    IF outcome = "status404" THEN <<"github-error", "github-404-hint">>
    ELSE <<"github-error">>

Request(method, target, b) == [method |-> method, target |-> target, body |-> b]
----------------------------------------------------------------------------
(* The Reconciliation Engine: the switch of processWebhook (lines 103-122) *)

\* Variant: the delete case handles only a hook that exists.
DecideDeleteOnlyExisting(operation, hook, b) ==
    CASE operation = "create" ->
            IF hook = <<>> THEN "Create"
            ELSE IF EventsDiffer(hook[1].events, b.events) THEN "Update"
            ELSE "NoOp"
      [] operation = "delete" /\ hook # <<>> -> "Delete"
      [] OTHER -> "NoCase"

\* Variant: the create case does not test existingHook.
DecideAlwaysCreate(operation, hook, b) ==
    CASE operation = "create" -> "Create"
      [] operation = "delete" ->
            IF hook = <<>> THEN "AlreadyAbsent" ELSE "Delete"
      [] OTHER -> "NoCase"

\* Variant: the create case does not compare the events.
DecideAlwaysUpdate(operation, hook, b) ==
    CASE operation = "create" ->
            IF hook = <<>> THEN "Create" ELSE "Update"
      [] operation = "delete" ->
            IF hook = <<>> THEN "AlreadyAbsent" ELSE "Delete"
      [] OTHER -> "NoCase"

Decide(operation, hook, b) ==
    CASE operation = "create" ->
            IF hook = <<>> THEN "Create"
            ELSE IF EventsDiffer(hook[1].events, b.events) THEN "Update"
            ELSE "NoOp"
      [] operation = "delete" ->
            IF hook = <<>> THEN "AlreadyAbsent" ELSE "Delete"
      [] OTHER -> "NoCase"

\* Variant: createWebhook called with 'PUT'.
WriteRequestPut(act, hook, b) ==
    CASE act = "Create" -> Request("PUT", 0, <<b>>)
      [] act = "Update" -> Request("PATCH", hook[1].id, <<b>>)
      [] act = "Delete" -> Request("DELETE", hook[1].id, <<>>)

\* The remote write each action issues (lines 106, 108, 119 and 159).
WriteRequest(act, hook, b) ==
    CASE act = "Create" -> Request("POST", 0, <<b>>)
      [] act = "Update" -> Request("PATCH", hook[1].id, <<b>>)
      [] act = "Delete" -> Request("DELETE", hook[1].id, <<>>)

Writes == {"POST", "PATCH", "DELETE"}

\* Variant: the create case lacks its break, so that an update runs on into
\* the delete case.
IssuedWritesFallThrough(act, hook, b) ==
    IF act = "Update"
    THEN <<WriteRequest("Update", hook, b), WriteRequest("Delete", hook, b)>>
    ELSE IF act \in {"Create", "Delete"} THEN <<WriteRequest(act, hook, b)>>
    ELSE <<>>

\* The writes processWebhook issues for an action: createWebhook (line 106),
\* updateWebhook (line 108), deleteWebhook (line 119), none otherwise.
IssuedWrites(act, hook, b) ==
    IF act \in {"Create", "Update", "Delete"} THEN <<WriteRequest(act, hook, b)>>
    ELSE <<>>

\* Variants: updateWebhook, deleteWebhook call emit(existingHook) at once
\* instead of in the .then of their request.
EmitsAtOnceUpdate(act) == act \in {"NoOp", "AlreadyAbsent", "Update"}
EmitsAtOnceDelete(act) == act \in {"NoOp", "AlreadyAbsent", "Delete"}

\* The branches in which processWebhook itself calls emit (lines 111, 117);
\* the others emit in the .then of their write.
EmitsAtOnce(act) == act \in {"NoOp", "AlreadyAbsent"}

\* What those branches log (lines 110, 116) and emit (lines 111, 117).
LogOf(act) == IF act = "NoOp" THEN "already-exists" ELSE "does-not-exist"

\* Variant: both branches emit a synthesized id.
SyncResultNow(act, hook) == [id |-> DateNow]

SyncResult(act, hook) == IF act = "AlreadyAbsent" THEN [id |-> DateNow] ELSE hook[1]

\* Exit status of a process that is still running.
Running == -1

\* A promise rejected with no handler: the runtime reports it on stderr;
\* it ends the process with status 1 (--unhandled-rejections=throw, the
\* default since Node 15) or lets it end with status 0 (warn, the default
\* before).
UnhandledExitCodes == {0, 1}

----------------------------------------------------------------------------
(* State machine *)

Init ==
    /\ remote \in InitialRemotes
    /\ nextId = MaxHooks + 1
    /\ remote0 = remote
    /\ run = 1
    /\ pc = "stdin"
    /\ op = None
    /\ body = <<>>
    /\ existingHook = <<>>
    /\ action = None
    /\ pending = {}
    /\ calls = <<>>
    /\ hist = <<>>
    /\ stdout = <<>>
    /\ stderr = <<>>
    /\ exit = Running
    /\ prev = <<>>
    /\ input = <<>>
    /\ procs = <<>>

\* stdin.on('end') (lines 18-46) with the part of processWebhook that runs
\* before its await (lines 83-100).
StdinEndFrom(inputs) ==
    /\ pc = "stdin"
    /\ \E in \in inputs :
        /\ input' = <<in>>
        /\ IF in.stdin.empty
           THEN \* lines 20-23: log and return; the process ends by itself
                /\ stderr' = Append(stderr, "empty-input")
                /\ exit' = 0
                /\ pc' = "exited"
                /\ UNCHANGED <<op, body, pending, calls, hist>>
           ELSE IF \/ ~in.stdin.wellFormed
                   \/ ~ValidateEnv(in.env)
                   \/ ~ValidateConfig(in.stdin.doc[1])
           THEN \* lines 30-33
                /\ stderr' = Append(stderr, "validation-error")
                /\ exit' = 1
                /\ pc' = "exited"
                /\ UNCHANGED <<op, body, pending, calls, hist>>
           ELSE LET source == in.stdin.doc[1].source
                    params == in.stdin.doc[1].params
                    events == NormalizeEvents(params.events)
                    url == BuildUrl(source, params, in.env)
                IN  /\ op' = params.operation
                    /\ IF ~url.ok
                       THEN \* buildUrl throws inside the async function
                            /\ stderr' = Append(stderr, "unhandled-rejection")
                            /\ exit' \in UnhandledExitCodes
                            /\ pc' = "exited"
                            /\ UNCHANGED <<body, pending, calls, hist>>
                       ELSE /\ stderr' = Append(stderr, "webhook-location")
                            /\ body' = <<Body(url.value, events)>>
                            /\ pending' = pending \cup {Request("GET", 0, <<>>)}
                            /\ calls' = Append(calls, Request("GET", 0, <<>>))
                            /\ hist' = Append(hist, "list-issued")
                            /\ pc' = "list"
                            /\ UNCHANGED exit
    /\ UNCHANGED <<remote, nextId, remote0, run, existingHook, action, stdout, prev,
                   procs>>

StdinEnd == StdinEndFrom(Inputs)

\* emit (lines 198-209)
Emit(result) ==
    /\ stdout' = Append(stdout, Output(result))
    /\ exit' = 0
    /\ pc' = "exited"

\* Variant: callGithub's catch issues the request again instead of exiting.
ListFailedRetry(outcome) ==
    /\ calls' = Append(calls, Request("GET", 0, <<>>))
    /\ hist' = hist \o <<"list-failed", "list-issued">>
    /\ stderr' = stderr \o CatchLog(outcome)
    /\ UNCHANGED <<pc, exit, pending, existingHook, action, stdout>>

\* The list call failed: callGithub's catch (lines 183-195).
ListFailed(outcome) ==
    /\ IF outcome \in JsonErrors
       THEN /\ stderr' = stderr \o CatchLog(outcome)
            /\ exit' = 1
       ELSE \* JSON.parse(err.error) throws inside the catch (line 186);
            \* nothing handles the rejection of processWebhook
            /\ stderr' = Append(stderr, "unhandled-rejection")
            /\ exit' \in UnhandledExitCodes
    /\ pc' = "exited"
    /\ hist' = Append(hist, "list-failed")
    /\ pending' = pending \ {Request("GET", 0, <<>>)}
    /\ UNCHANGED <<existingHook, action, calls, stdout>>

\* The list call succeeded: the rest of processWebhook (lines 101-122).
ListSucceeded ==
    LET hook == FindHook(remote, body[1].config)
        act == Decide(op, hook, body[1])
        writes == IssuedWrites(act, hook, body[1])
        issued == IF writes = <<>> THEN <<>> ELSE <<"write-issued">>
    IN  /\ existingHook' = hook
        /\ action' = act
        /\ calls' = calls \o writes
        /\ pending' = (pending \ {Request("GET", 0, <<>>)})
                        \cup {writes[i] : i \in DOMAIN writes}
        /\ IF EmitsAtOnce(act)
           THEN /\ stderr' = Append(stderr, LogOf(act))
                /\ hist' = hist \o <<"list-response">> \o issued \o <<"emit">>
                /\ Emit(SyncResult(act, hook))
           ELSE IF writes # <<>>
           THEN /\ hist' = hist \o <<"list-response">> \o issued
                /\ pc' = "write"
                /\ UNCHANGED <<stdout, stderr, exit>>
           ELSE \* no case of the switch applies: the process ends by
                \* itself
                /\ hist' = Append(hist, "list-response")
                /\ exit' = 0
                /\ pc' = "exited"
                /\ UNCHANGED <<stdout, stderr>>

\* The list call is answered.
ListResponds ==
    /\ pc = "list"
    /\ \E outcome \in Outcomes :
        IF outcome = "ok" THEN ListSucceeded ELSE ListFailed(outcome)
    /\ input' = <<>>
    /\ UNCHANGED <<remote, nextId, remote0, run, op, body, prev, procs>>

\* The write is answered: the handlers of createWebhook (lines 134-141),
\* updateWebhook (lines 148-155) and deleteWebhook (lines 162-165), and
\* callGithub's catch (lines 183-195).
WriteResponds ==
    /\ pc = "write"
    /\ \E outcome \in Outcomes :
        LET req == calls[Len(calls)]
        IN  /\ outcome = "ok" => (req.method = "POST" \/ HasHook(remote, req.target))
            /\ pending' = pending \ {req}
            /\ CASE outcome \in JsonErrors ->
                      /\ stderr' = stderr \o CatchLog(outcome)
                      /\ exit' = 1
                      /\ pc' = "exited"
                      /\ hist' = Append(hist, "write-failed")
                      /\ UNCHANGED <<remote, nextId, stdout>>
                 [] outcome = "transport" /\ req.method \in {"POST", "PATCH"} ->
                      \* the rejection reaches the .catch of lines 138, 152
                      /\ stderr' = Append(stderr, "error-stack")
                      /\ exit' = 1
                      /\ pc' = "exited"
                      /\ hist' = Append(hist, "write-failed")
                      /\ UNCHANGED <<remote, nextId, stdout>>
                 [] outcome = "transport" /\ req.method = "DELETE" ->
                      \* deleteWebhook has no .catch
                      /\ stderr' = Append(stderr, "unhandled-rejection")
                      /\ exit' \in UnhandledExitCodes
                      /\ pc' = "exited"
                      /\ hist' = Append(hist, "write-failed")
                      /\ UNCHANGED <<remote, nextId, stdout>>
                 [] outcome = "ok" /\ req.method = "POST" ->
                      /\ remote' = RemoteCreate(remote, nextId, req.body[1])
                      /\ nextId' = nextId + 1
                      /\ stderr' = Append(stderr, "created")
                      /\ hist' = hist \o <<"write-response", "emit">>
                      /\ Emit(Stored(nextId, req.body[1]))
                 [] outcome = "ok" /\ req.method = "PATCH" ->
                      /\ remote' = RemoteUpdate(remote, req.target, req.body[1])
                      /\ stderr' = Append(stderr, "updated")
                      /\ hist' = hist \o <<"write-response", "emit">>
                      /\ Emit(Stored(req.target, req.body[1]))
                      /\ UNCHANGED nextId
                 [] outcome = "ok" /\ req.method = "DELETE" ->
                      /\ remote' = RemoteDelete(remote, req.target)
                      /\ stderr' = Append(stderr, "deleted")
                      /\ hist' = hist \o <<"write-response", "emit">>
                      /\ Emit(existingHook[1])
                      /\ UNCHANGED nextId
    /\ UNCHANGED <<remote0, run, op, body, existingHook, action, calls, prev, input,
                   procs>>

\* The orchestrator starts the next invocation, a new process, against the
\* same repository.
NextInvocation ==
    /\ pc = "exited"
    /\ run < MaxRuns
    /\ run' = run + 1
    /\ prev' = <<[op |-> op, body |-> body, action |-> action, exit |-> exit,
                  stdout |-> stdout]>>
    /\ remote0' = remote
    /\ pc' = "stdin"
    /\ op' = None
    /\ body' = <<>>
    /\ existingHook' = <<>>
    /\ action' = None
    /\ pending' = {}
    /\ calls' = <<>>
    /\ hist' = <<>>
    /\ stdout' = <<>>
    /\ stderr' = <<>>
    /\ exit' = Running
    /\ input' = <<>>
    /\ UNCHANGED <<remote, nextId, procs>>

\* One invocation of the program.
Next == StdinEnd \/ ListResponds \/ WriteResponds

Spec == Init /\ [][Next]_vars

\* Invocations one after another, the first against a repository that has
\* no hook yet or one hook subscribed to push.
InitRuns ==
    /\ Init
    /\ Len(remote) <= 1
    /\ \A i \in DOMAIN remote : remote[i].events = <<"push">>

NextRuns == Next \/ NextInvocation

SpecRuns == InitRuns /\ [][NextRuns]_vars
----------------------------------------------------------------------------
(* Vocabulary of the properties *)

Range(s) == {s[i] : i \in DOMAIN s}

\* The list call was answered and the switch of processWebhook has run.
Listed == action # None

\* The hook's config carries the desired url and content type.
Desired(h) ==
    /\ h.config["url"] = body[1].config["url"]
    /\ h.config["content-type"] = body[1].config["content-type"]

\* The hooks listed to this invocation that match the desired config, and the
\* first of them.
Matching == {i \in DOMAIN remote0 : Desired(remote0[i])}
FirstMatch == remote0[CHOOSE i \in Matching : \A j \in Matching : i <= j]

WriteCalls == SelectSeq(calls, LAMBDA c : c.method # "GET")

Succeeded == pc = "exited" /\ exit = 0

\* The write of this invocation was answered with success.
WriteOk == \E i \in DOMAIN hist : hist[i] = "write-response"

ResultOf(id) == <<[version |-> [id |-> <<"str", id>>]]>>

----------------------------------------------------------------------------
(* Properties *)

\* C1: in a create invocation with a matching hook listed, Update (one PATCH
\* to the match's id with the desired body) is chosen exactly when the set of
\* the match's events differs from the set of the desired events.
C1_UpdateIffEventSetsDiffer ==
    (op = "create" /\ Listed /\ Matching # {}) =>
        /\ (action = "Update") <=>
              (Range(FirstMatch.events) # Range(body[1].events))
        /\ action = "Update" =>
              WriteCalls = <<Request("PATCH", FirstMatch.id, body)>>

\* C2: in a create invocation with a matching hook listed whose events equal
\* the desired events as sets, NoOp is chosen: no write is issued, the remote
\* is unchanged and the result is the match's id.
C2_EqualEventSetsNoOp ==
    (/\ op = "create" /\ Listed /\ Matching # {}
     /\ Range(FirstMatch.events) = Range(body[1].events)) =>
        /\ action = "NoOp"
        /\ WriteCalls = <<>>
        /\ remote = remote0
        /\ Succeeded
        /\ stdout = ResultOf(FirstMatch.id)

\* C3: in a create invocation with no matching hook listed, Create is chosen:
\* exactly one POST to the hooks endpoint with name 'web', the desired config
\* and the desired events; the result is the id of the hook the remote
\* returned.
C3_CreateWhenNoMatch ==
    (op = "create" /\ Listed /\ Matching = {}) =>
        /\ action = "Create"
        /\ WriteCalls = <<Request("POST", 0, body)>>
        /\ body[1].name = "web"
        /\ DOMAIN body[1].config = {"url", "content-type"}
        /\ body[1].config["content-type"] = "json"
        /\ body[1].config["url"] \in KnownUrls
        /\ body[1].events # <<>>
        /\ Cardinality(Range(body[1].events)) = Len(body[1].events)
        /\ stdout # <<>> => WriteOk
        /\ WriteOk =>
              /\ Succeeded
              /\ Len(remote) = Len(remote0) + 1
              /\ SubSeq(remote, 1, Len(remote0)) = remote0
              /\ Desired(remote[Len(remote)])
              /\ remote[Len(remote)].events = body[1].events
              /\ stdout = ResultOf(remote[Len(remote)].id)

C3_Witness ==
    /\ op = "create" /\ action = "Create" /\ Matching = {} /\ WriteOk
    /\ remote0 # <<>>
    /\ Len(stdout) = 1

\* C4: in a delete invocation with no matching hook listed, the run does not
\* fail: no write is issued, the remote is unchanged, and it ends with status
\* 0 after emitting exactly one result, whose id is the current timestamp.
C4_DeleteAbsentSucceeds ==
    (op = "delete" /\ Listed /\ Matching = {}) =>
        /\ action = "AlreadyAbsent"
        /\ WriteCalls = <<>>
        /\ pending = {}
        /\ remote = remote0
        /\ Succeeded
        /\ stdout = ResultOf(DateNow)

C4_Witness ==
    /\ op = "delete" /\ Listed /\ Matching = {} /\ Succeeded
    /\ remote0 # <<>>
    /\ Len(stdout) = 1

\* C5: in a delete invocation with a matching hook listed, Delete of the match
\* is chosen: exactly one DELETE to the match's id is issued; once it
\* succeeded the hook is no longer registered and the result is its id.
C5_DeleteTheMatch ==
    (op = "delete" /\ Listed /\ Matching # {}) =>
        /\ action = "Delete"
        /\ existingHook = <<FirstMatch>>
        /\ WriteCalls = <<Request("DELETE", FirstMatch.id, <<>>)>>
        /\ stdout # <<>> => WriteOk
        /\ ~WriteOk => remote = remote0
        /\ WriteOk =>
              /\ Succeeded
              /\ ~HasHook(remote, FirstMatch.id)
              /\ remote = SelectSeq(remote0, LAMBDA h : h # FirstMatch)
              /\ stdout = ResultOf(FirstMatch.id)

C5_Witness ==
    /\ op = "delete" /\ action = "Delete" /\ Matching # {} /\ WriteOk
    /\ Len(stdout) = 1
    /\ Len(remote) < Len(remote0)
\* C6: an invocation issues at most one remote write (POST, PATCH, DELETE):
\* exactly one when the action is Create, Update or Delete, none when it is
\* NoOp or AlreadyAbsent.
C6_AtMostOneWrite ==
    /\ Len(WriteCalls) <= 1
    /\ \A i \in DOMAIN WriteCalls : WriteCalls[i].method \in Writes
    /\ action \in {"Create", "Update", "Delete"} => Len(WriteCalls) = 1
    /\ action \in {"NoOp", "AlreadyAbsent"} => Len(WriteCalls) = 0
    /\ ~Listed => Len(WriteCalls) = 0

C6_Witness ==
    /\ action = "Update" /\ WriteOk /\ Len(WriteCalls) = 1
    /\ stdout # <<>>

\* The orders of events an invocation may show.
EventOrders ==
    {<<"list-issued", "list-failed">>,
     <<"list-issued", "list-response", "emit">>,
     <<"list-issued", "list-response", "write-issued", "write-failed">>,
     <<"list-issued", "list-response", "write-issued", "write-response", "emit">>}

IsPrefix(s, t) == Len(s) <= Len(t) /\ SubSeq(t, 1, Len(s)) = s

\* C7: within an invocation the list call is issued and answered before any
\* write is issued, the result is emitted only after the write (if any) was
\* answered with success, and no two requests are in flight at once.
C7_StrictSequence ==
    /\ Cardinality(pending) <= 1
    /\ pending \subseteq Range(calls)
    /\ \E o \in EventOrders : IsPrefix(hist, o)
    /\ calls # <<>> => calls[1].method = "GET"
    /\ WriteCalls # <<>> =>
          /\ Request("GET", 0, <<>>) \notin pending
          /\ \E i \in DOMAIN hist : hist[i] = "list-response"
    /\ stdout # <<>> =>
          /\ pending = {}
          /\ hist[Len(hist)] = "emit"
          /\ WriteCalls # <<>> => WriteOk
    /\ Len(stdout) = Cardinality({i \in DOMAIN hist : hist[i] = "emit"})
    /\ Len(calls) = Cardinality({i \in DOMAIN hist :
                                   hist[i] \in {"list-issued", "write-issued"}})

C7_Witness ==
    /\ hist = <<"list-issued", "list-response", "write-issued", "write-response", "emit">>
    /\ Len(stdout) = 1
    /\ Len(calls) = 2

\* C8: after a create invocation that created the hook, a second create
\* invocation with the same desired config chooses NoOp: it issues no write,
\* leaves the hook and its events as they are, and emits the same id.
C8_CreateTwiceIsNoOp ==
    (/\ prev # <<>> /\ prev[1].op = "create" /\ prev[1].action = "Create"
     /\ prev[1].stdout # <<>>
     /\ op = "create" /\ body = prev[1].body /\ Listed) =>
        /\ action = "NoOp"
        /\ WriteCalls = <<>>
        /\ remote = remote0
        /\ existingHook # <<>>
        /\ existingHook[1] \in Range(remote)
        /\ existingHook[1].events = body[1].events
        /\ Succeeded
        /\ stdout = prev[1].stdout

C8_Witness ==
    /\ prev # <<>> /\ prev[1].op = "create" /\ prev[1].action = "Create"
    /\ prev[1].stdout # <<>>
    /\ op = "create" /\ body = prev[1].body /\ action = "NoOp"
    /\ Len(stdout) = 1

\* C9: every invocation ends either with exactly one well-formed result
\* {version: {id}} emitted and status 0, or with nothing emitted and a
\* non-zero status.
C9_NoPartialSuccess ==
    pc = "exited" =>
        \/ /\ exit = 0
           /\ Len(stdout) = 1
           /\ DOMAIN stdout[1] = {"version"}
           /\ DOMAIN stdout[1].version = {"id"}
           /\ stdout[1].version.id[1] = "str"
        \/ /\ exit = 1
           /\ stdout = <<>>

\* The failures of an invocation: the input (empty, no JSON text, or
\* rejected by validation), the composition of the URL, a remote call.
ValidationFailed ==
    stderr # <<>> /\ stderr[Len(stderr)] \in {"empty-input", "validation-error"}
CompositionFailed == stderr = <<"unhandled-rejection">>
RemoteCallFailed ==
    hist # <<>> /\ hist[Len(hist)] \in {"list-failed", "write-failed"}

\* C10: every validation failure, URL composition failure and remote call
\* failure ends the invocation with a non-zero status, a diagnostic on
\* stderr and nothing on stdout.
C10_FailuresExitNonZero ==
    (pc = "exited" /\ (ValidationFailed \/ CompositionFailed \/ RemoteCallFailed)) =>
        /\ exit = 1
        /\ stderr # <<>>
        /\ stdout = <<>>

\* C11: a failed remote call is never retried.  A failure recorded in the
\* history is its last entry: no call is issued and no result is emitted after
\* it, the process has ended with nothing in flight, and every call was
\* issued once.  After a failed list the list call is the only call; after a
\* failed write the calls are the list and that one write.
C11_NoRetry ==
    \A i \in DOMAIN hist :
        hist[i] \in {"list-failed", "write-failed"} =>
            /\ i = Len(hist)
            /\ pc = "exited"
            /\ exit # Running
            /\ pending = {}
            /\ stdout = <<>>
            /\ \A j \in DOMAIN hist : hist[j] # "emit"
            /\ hist[i] = "list-failed" =>
                   /\ calls = <<Request("GET", 0, <<>>)>>
                   /\ WriteCalls = <<>>
            /\ hist[i] = "write-failed" =>
                   /\ Len(calls) = 2
                   /\ calls[1] = Request("GET", 0, <<>>)
                   /\ Len(WriteCalls) = 1

\* A list call failed, and (in another invocation) a PATCH failed.
C11_Witness ==
    /\ pc = "exited"
    /\ \/ hist = <<"list-issued", "list-failed">>
       \/ /\ hist = <<"list-issued", "list-response", "write-issued", "write-failed">>
          /\ calls[2].method = "PATCH"

\* The input carries a configuration error: stdin is no JSON text (empty or
\* malformed), the environment or the resource config fails validation, or
\* BUILD_PIPELINE_INSTANCE_VARS is no JSON text.
ConfigError(in) ==
    \/ in.stdin.empty
    \/ ~in.stdin.wellFormed
    \/ ~ValidateEnv(in.env)
    \/ ~ValidateConfig(in.stdin.doc[1])
    \/ /\ in.env.BUILD_PIPELINE_INSTANCE_VARS.present
       /\ ~in.env.BUILD_PIPELINE_INSTANCE_VARS.wellFormed

\* C12: a configuration error is detected before any remote call and is
\* fatal.  Once the input with the error has been read the process has ended
\* with status 1 and a diagnostic; no list call and no write was issued,
\* nothing is in flight and nothing was emitted.
C12_ConfigErrorsBeforeCalls ==
    (input # <<>> /\ ConfigError(input[1])) =>
        /\ pc = "exited"
        /\ exit = 1
        /\ calls = <<>>
        /\ pending = {}
        /\ hist = <<>>
        /\ stdout = <<>>
        /\ stderr # <<>>

\* C13: every successful action yields exactly one result whose id is a
\* string made of an id: the matched hook's id for NoOp and Delete, the id of
\* the hook the remote returned for Create (the hook it added) and Update (the
\* hook it changed), the synthesized timestamp for AlreadyAbsent.  No
\* invocation emits two results, and none emits without such an action.
C13_OneResultPerAction ==
    /\ Len(stdout) <= 1
    /\ Cardinality({i \in DOMAIN hist : hist[i] = "emit"}) = Len(stdout)
    /\ stdout # <<>> =>
           /\ pc = "exited" /\ exit = 0
           /\ action \in {"Create", "Update", "NoOp", "Delete", "AlreadyAbsent"}
           /\ stdout[1].version.id[1] = "str"
           /\ stdout[1].version.id[2] \in Nat \ {0}
    /\ (Listed /\ action \in {"NoOp", "AlreadyAbsent"}) => Len(stdout) = 1
    /\ (Listed /\ action \in {"Create", "Update", "Delete"} /\ WriteOk) =>
           Len(stdout) = 1
    /\ (Listed /\ stdout # <<>>) =>
           CASE action \in {"NoOp", "Delete", "Update"} ->
                    stdout = ResultOf(FirstMatch.id)
             [] action = "Create" ->
                    /\ stdout = ResultOf(remote[Len(remote)].id)
                    /\ \A i \in DOMAIN remote0 :
                           remote0[i].id # remote[Len(remote)].id
             [] action = "AlreadyAbsent" -> stdout = ResultOf(DateNow)
             [] OTHER -> FALSE

\* A PATCH succeeded and its result names the changed hook; the witness of
\* the synthesized id is C4_Witness.
C13_Witness ==
    /\ action = "Update"
    /\ WriteOk
    /\ stdout = ResultOf(existingHook[1].id)

----------------------------------------------------------------------------
(* One invocation on the inputs in full: longer event lists over three event
   names, and instance-variable objects from both sources *)

VarKeys == {"env", "region"}
VarValues == {"prod", "dev"}

\* The entries of a JSON object: no key twice.
Objects ==
    {o \in SeqsUpTo(VarKeys \X VarValues, MaxVars) :
        \A i, j \in DOMAIN o : i # j => o[i][1] # o[j][1]}

InputOf(operation, events, ambient, own) ==
    [stdin |-> Document([DefaultConfig EXCEPT !.params.operation = operation,
                                              !.params.events = events,
                                              !.params.pipeline_instance_vars = own]),
     env |-> [DefaultEnv EXCEPT !.BUILD_PIPELINE_INSTANCE_VARS = ambient]]

EventInputs ==
    {InputOf(o, e, NoText, <<>>) :
        o \in {"create", "delete"},
        e \in {<<>>} \cup {<<l>> : l \in InputEventLists}}

UrlInputs ==
    {InputOf("create", <<>>, a, v) :
        a \in {NoText, Malformed} \cup {TextOf(o) : o \in Objects},
        v \in {<<>>} \cup {<<o>> : o \in Objects}}

FullInputs == EventInputs \cup UrlInputs

NextInputs == StdinEndFrom(FullInputs) \/ ListResponds \/ WriteResponds

SpecInputs == InitRuns /\ [][NextInputs]_vars

\* Index of the first occurrence of x in s.
FirstIndex(s, x) == CHOOSE i \in DOMAIN s : s[i] = x /\ \A j \in 1..(i - 1) : s[j] # x

\* C14: event normalisation.  The desired events built from the input hold no
\* event twice; they are ["push"] when the input has no events or an empty
\* list, and otherwise exactly the distinct input events, in the order of
\* their first occurrence.  These desired events are the ones compared with
\* the matched hook and the ones every request body carries.
C14_EventNormalisation ==
    /\ (input # <<>> /\ body # <<>>) =>
           LET raw == input[1].stdin.doc[1].params.events
               ev == body[1].events
           IN  /\ \A i, j \in DOMAIN ev : i # j => ev[i] # ev[j]
               /\ (raw = <<>> \/ raw[1] = <<>>) => ev = <<"push">>
               /\ (raw # <<>> /\ raw[1] # <<>>) =>
                      /\ Range(ev) = Range(raw[1])
                      /\ \A i, j \in DOMAIN ev :
                             i < j => FirstIndex(raw[1], ev[i]) < FirstIndex(raw[1], ev[j])
    /\ body # <<>> =>
           /\ \A i \in DOMAIN calls :
                  calls[i].body # <<>> => calls[i].body[1].events = body[1].events
           /\ (Listed /\ action = "NoOp") =>
                  Range(existingHook[1].events) = Range(body[1].events)

\* The input events push, issues, push gave the desired events push, issues.
C14_Witness ==
    /\ input # <<>>
    /\ body # <<>>
    /\ input[1].stdin.doc[1].params.events = <<<<"push", "issues", "push">>>>
    /\ body[1].events = <<"push", "issues">>

----------------------------------------------------------------------------
(* The matcher alone (line 101), on hook lists of any content *)

\* Configs of listed hooks: the url, with or without a content type, with or
\* without a field of the remote's own.
ListedConfigs ==
    LET urls == {("url" :> u) : u \in KnownUrls}
        typed == urls \cup {c @@ ("content-type" :> t) : c \in urls, t \in {"json", "form"}}
    IN  typed \cup {c @@ ("insecure_ssl" :> "0") : c \in typed}

\* What a listed hook holds besides its id.
ListedContents == [config : ListedConfigs, events : {<<"push">>, <<"pull_request">>}]

\* The list holds up to MaxList hooks, the hook at position i with id i.
InitMatch ==
    /\ \E n \in 0..MaxList :
        \E f \in [1..n -> ListedContents] :
            remote = [i \in 1..n |->
                         [id |-> i, config |-> f[i].config, events |-> f[i].events]]
    /\ nextId = MaxList + 1
    /\ remote0 = remote
    /\ run = 1
    /\ pc = "find"
    /\ op = "create"
    /\ body \in {<<Body(u, <<"push">>)>> : u \in KnownUrls}
    /\ existingHook = <<>>
    /\ action = None
    /\ pending = {}
    /\ calls = <<>>
    /\ hist = <<>>
    /\ stdout = <<>>
    /\ stderr = <<>>
    /\ exit = Running
    /\ prev = <<>>
    /\ input = <<>>
    /\ procs = <<>>

\* Line 101 applied to the list.
FindMatch ==
    /\ pc = "find"
    /\ existingHook' = FindHook(remote, body[1].config)
    /\ pc' = "found"
    /\ UNCHANGED <<remote, nextId, remote0, run, op, body, action, pending, calls,
                   hist, stdout, stderr, exit, prev, input, procs>>

SpecMatch == InitMatch /\ [][FindMatch]_vars

\* The hook's config holds every key of the desired config with its value.
ContainsDesired(h) ==
    \A k \in DOMAIN body[1].config :
        k \in DOMAIN h.config /\ h.config[k] = body[1].config[k]

\* C15: the matcher returns the first hook in list order whose config
\* contains every key and value of the desired config, and none when no hook
\* does.  A hook with the desired url and content type is matched (or a hook
\* before it is) whatever other fields its config holds and whatever its
\* events are; a hook whose config equals the desired config is matched.
C15_FirstContainingHook ==
    pc = "found" =>
        LET hits == {i \in DOMAIN remote : ContainsDesired(remote[i])}
        IN  /\ hits = {} <=> existingHook = <<>>
            /\ hits # {} =>
                   /\ existingHook = <<remote[CHOOSE i \in hits : \A j \in hits : i <= j]>>
                   /\ \A j \in 1..(existingHook[1].id - 1) : ~ContainsDesired(remote[j])
            /\ (\E i \in DOMAIN remote : remote[i].config = body[1].config) =>
                   existingHook # <<>>
            /\ \A i \in DOMAIN remote :
                   (/\ remote[i].config["url"] = body[1].config["url"]
                    /\ "content-type" \in DOMAIN remote[i].config
                    /\ remote[i].config["content-type"] = "json") =>
                       (existingHook # <<>> /\ existingHook[1].id <= i)

\* Of two matching hooks the first was returned, one with a field of the
\* remote's own and other events than the second.
C15_Witness ==
    /\ pc = "found"
    /\ Len(remote) = 2
    /\ ContainsDesired(remote[1]) /\ ContainsDesired(remote[2])
    /\ "insecure_ssl" \in DOMAIN remote[1].config
    /\ remote[1].events # remote[2].events
    /\ existingHook = <<remote[1]>>

\* C16: invocations run one after another keep at most one matching hook.
\* The first invocation starts with at most one hook matching any desired
\* config; after every completed create or delete invocation, whatever its
\* event list, at most one registered hook matches any desired config.
C16_AtMostOneMatch ==
    \A u \in KnownUrls :
        Cardinality({i \in DOMAIN remote : IsMatch(remote[i].config, HookConfig(u))}) <= 1

\* A create invocation added a hook, the next one, for the same config with
\* other events, completed, and one hook matches that config.
C16_Witness ==
    /\ run = 2
    /\ prev[1].action = "Create" /\ prev[1].stdout # <<>>
    /\ op = "create" /\ stdout # <<>>
    /\ body[1].config = prev[1].body[1].config
    /\ body[1].events # prev[1].body[1].events
    /\ Cardinality({i \in DOMAIN remote : IsMatch(remote[i].config, body[1].config)}) = 1

\* The pieces of a composed URL that follow the nine of line 50.
UrlTail(url) == SubSeq(url, 10, Len(url))

\* The entries the two sources hold: the ambient object's, then the params'.
EntriesOf(in) ==
    (IF in.env.BUILD_PIPELINE_INSTANCE_VARS.present
     THEN in.env.BUILD_PIPELINE_INSTANCE_VARS.json ELSE <<>>)
    \o (IF in.stdin.doc[1].params.pipeline_instance_vars # <<>>
        THEN in.stdin.doc[1].params.pipeline_instance_vars[1] ELSE <<>>)

\* C17: the instance-variable fragments are concatenated from the two sources
\* without merging.  buildInstanceVariables returns one fragment
\* &vars.<key>="<value>" for every entry, the ambient object's entries first
\* in object order, then the params' entries in object order, a key held by
\* both sources giving two fragments; with neither source set it returns
\* nothing.  The URL of the desired config ends with these fragments, each
\* double quote percent-encoded by encodeURI.
C17_FragmentsConcatenated ==
    (input # <<>> /\ body # <<>>) =>
        LET in == input[1]
            entries == EntriesOf(in)
            built == BuildInstanceVariables(in.stdin.doc[1].params, in.env)
            tail == UrlTail(body[1].config["url"])
        IN  /\ built.ok
            /\ Len(built.value) = 6 * Len(entries)
            /\ Len(tail) = 6 * Len(entries)
            /\ \A i \in DOMAIN entries :
                   /\ SubSeq(built.value, 6 * i - 5, 6 * i) =
                          <<"&vars.", entries[i][1], "=", "\"", entries[i][2], "\"">>
                   /\ SubSeq(tail, 6 * i - 5, 6 * i) =
                          <<"&vars.", entries[i][1], "=", "%22", entries[i][2], "%22">>
            /\ (/\ ~in.env.BUILD_PIPELINE_INSTANCE_VARS.present
                /\ in.stdin.doc[1].params.pipeline_instance_vars = <<>>) =>
                   tail = <<>>

\* The ambient object {env: prod, region: dev} met the params' object
\* {env: prod}: the fragment of env = prod is in the URL twice, around the one
\* of region.
C17_Witness ==
    /\ input # <<>>
    /\ body # <<>>
    /\ input[1].env.BUILD_PIPELINE_INSTANCE_VARS =
           TextOf(<<<<"env", "prod">>, <<"region", "dev">>>>)
    /\ input[1].stdin.doc[1].params.pipeline_instance_vars = <<<<<<"env", "prod">>>>>>
    /\ UrlTail(body[1].config["url"]) =
           <<"&vars.", "env", "=", "%22", "prod", "%22",
             "&vars.", "region", "=", "%22", "dev", "%22",
             "&vars.", "env", "=", "%22", "prod", "%22">>

----------------------------------------------------------------------------
(* Invocations that run at the same time against one repository.  Each is a
   process of its own (procs[p]); the steps are those of one invocation, the
   remote calls of the processes answered in any order *)

Procs == {1, 2}

\* Inputs of the concurrent invocations: one desired config, the default
\* events or pull_request, create or delete.
ConcInputs ==
    {InputOf(o, e, NoText, <<>>) :
        o \in {"create", "delete"}, e \in {<<>>, <<<<"pull_request">>>>}}

InitConc ==
    /\ remote \in {r \in InitialRemotes :
                      Len(r) <= 1 /\ \A i \in DOMAIN r : r[i].events = <<"push">>}
    /\ nextId = MaxHooks + 1
    /\ remote0 = remote
    /\ run = 1
    /\ pc = "procs"
    /\ op = None
    /\ body = <<>>
    /\ existingHook = <<>>
    /\ action = None
    /\ pending = {}
    /\ calls = <<>>
    /\ hist = <<>>
    /\ stdout = <<>>
    /\ stderr = <<>>
    /\ exit = Running
    /\ prev = <<>>
    /\ input = <<>>
    /\ procs = [p \in Procs |->
                   [pc |-> "stdin", op |-> None, body |-> <<>>, existingHook |-> <<>>,
                    action |-> None, calls |-> <<>>, stdout |-> <<>>, exit |-> Running]]

\* Exit statuses of a failed remote call: callGithub's catch exits with 1 on
\* a JSON error body (line 194), the .catch of createWebhook and
\* updateWebhook exits with 1 (lines 140, 154); the other rejections are
\* unhandled.
FailureExits(outcome, method) ==
    IF outcome \in JsonErrors \/ method \in {"POST", "PATCH"} THEN {1}
    ELSE UnhandledExitCodes

\* stdin.on('end') of process p, up to the await of line 100.
ConcStdinEnd(p) ==
    /\ procs[p].pc = "stdin"
    /\ \E in \in ConcInputs :
        LET source == in.stdin.doc[1].source
            params == in.stdin.doc[1].params
            events == NormalizeEvents(params.events)
            url == BuildUrl(source, params, in.env)
        IN  procs' = [procs EXCEPT ![p].pc = "list",
                                   ![p].op = params.operation,
                                   ![p].body = <<Body(url.value, events)>>,
                                   ![p].calls = <<Request("GET", 0, <<>>)>>]
    /\ UNCHANGED <<remote, nextId, remote0, run, pc, op, body, existingHook, action,
                   pending, calls, hist, stdout, stderr, exit, prev, input>>

\* The list call of process p is answered with the hooks registered now.
ConcListResponds(p) ==
    /\ procs[p].pc = "list"
    /\ \E outcome \in Outcomes :
        IF outcome = "ok"
        THEN LET b == procs[p].body[1]
                 hook == FindHook(remote, b.config)
                 act == Decide(procs[p].op, hook, b)
                 writes == IssuedWrites(act, hook, b)
             IN  IF EmitsAtOnce(act)
                 THEN procs' = [procs EXCEPT ![p].pc = "exited",
                                             ![p].existingHook = hook,
                                             ![p].action = act,
                                             ![p].stdout = Output(SyncResult(act, hook)),
                                             ![p].exit = 0]
                 ELSE procs' = [procs EXCEPT ![p].pc = "write",
                                             ![p].existingHook = hook,
                                             ![p].action = act,
                                             ![p].calls = @ \o writes]
        ELSE \E status \in FailureExits(outcome, "GET") :
                 procs' = [procs EXCEPT ![p].pc = "exited", ![p].exit = status]
    /\ UNCHANGED <<remote, nextId, remote0, run, pc, op, body, existingHook, action,
                   pending, calls, hist, stdout, stderr, exit, prev, input>>

\* The write of process p is answered.
ConcWriteResponds(p) ==
    /\ procs[p].pc = "write"
    /\ \E outcome \in Outcomes :
        LET req == procs[p].calls[Len(procs[p].calls)]
        IN  /\ outcome = "ok" => (req.method = "POST" \/ HasHook(remote, req.target))
            /\ CASE outcome # "ok" ->
                      /\ \E status \in FailureExits(outcome, req.method) :
                             procs' = [procs EXCEPT ![p].pc = "exited",
                                                    ![p].exit = status]
                      /\ UNCHANGED <<remote, nextId>>
                 [] outcome = "ok" /\ req.method = "POST" ->
                      /\ remote' = RemoteCreate(remote, nextId, req.body[1])
                      /\ nextId' = nextId + 1
                      /\ procs' = [procs EXCEPT
                                      ![p].pc = "exited", ![p].exit = 0,
                                      ![p].stdout = Output(Stored(nextId, req.body[1]))]
                 [] outcome = "ok" /\ req.method = "PATCH" ->
                      /\ remote' = RemoteUpdate(remote, req.target, req.body[1])
                      /\ procs' = [procs EXCEPT
                                      ![p].pc = "exited", ![p].exit = 0,
                                      ![p].stdout = Output(Stored(req.target, req.body[1]))]
                      /\ UNCHANGED nextId
                 [] outcome = "ok" /\ req.method = "DELETE" ->
                      /\ remote' = RemoteDelete(remote, req.target)
                      /\ procs' = [procs EXCEPT
                                      ![p].pc = "exited", ![p].exit = 0,
                                      ![p].stdout = Output(procs[p].existingHook[1])]
                      /\ UNCHANGED nextId
    /\ UNCHANGED <<remote0, run, pc, op, body, existingHook, action, pending, calls,
                   hist, stdout, stderr, exit, prev, input>>

NextConc ==
    \E p \in Procs : ConcStdinEnd(p) \/ ConcListResponds(p) \/ ConcWriteResponds(p)

SpecConc == InitConc /\ [][NextConc]_vars

\* C18: two create invocations for the same desired config that run at the
\* same time, their list and write steps interleaved in any order, never
\* leave more than one registered hook matching that config.
C18_ConcurrentCreatesOneMatch ==
    \A p, q \in Procs :
        (/\ p # q
         /\ procs[p].op = "create" /\ procs[q].op = "create"
         /\ procs[p].body[1].config = procs[q].body[1].config) =>
            Cardinality({i \in DOMAIN remote :
                            IsMatch(remote[i].config, procs[p].body[1].config)}) <= 1

\* The hooks registered now that were listed to this invocation, in order.
Kept == SelectSeq(remote, LAMBDA h : \E i \in DOMAIN remote0 : remote0[i].id = h.id)

\* C19: an invocation touches the matched hook only.  Every PATCH and DELETE
\* is addressed to the id of the first listed hook that matches the desired
\* config; every listed hook that does not match is registered afterwards
\* with the same id, config and events, in the same order; a Create leaves
\* every listed hook as it was and adds at most one hook, with a new id.
C19_OnlyTheMatchIsTouched ==
    Listed =>
        /\ \A i \in DOMAIN calls :
               calls[i].method \in {"PATCH", "DELETE"} =>
                   (Matching # {} /\ calls[i].target = FirstMatch.id)
        /\ \A i \in DOMAIN calls : calls[i].method = "POST" => calls[i].target = 0
        /\ LET others == SelectSeq(remote0, LAMBDA h : ~Desired(h))
           IN  others = SelectSeq(Kept, LAMBDA h : \E i \in DOMAIN others : others[i].id = h.id)
        /\ action \in {"Create", "NoOp", "AlreadyAbsent", "NoCase"} =>
               /\ SubSeq(remote, 1, Len(remote0)) = remote0
               /\ Len(remote) <= Len(remote0) + 1
               /\ Len(remote) = Len(remote0) + 1 =>
                      /\ action = "Create"
                      /\ \A i \in DOMAIN remote0 : remote0[i].id # remote[Len(remote)].id

\* The second invocation found two hooks, changed the matching one with a
\* PATCH, and the other is as it was.
C19_Witness ==
    /\ run = 2
    /\ Len(remote0) = 2
    /\ action = "Update"
    /\ WriteOk
    /\ \E i \in DOMAIN remote0 : ~Desired(remote0[i]) /\ remote[i] = remote0[i]
    /\ \E i \in DOMAIN remote0 : Desired(remote0[i]) /\ remote[i] # remote0[i]

\* The previous invocation emitted a result, and this one has the same
\* operation and the same desired config and events.
RepeatsSuccess ==
    /\ prev # <<>>
    /\ prev[1].stdout # <<>>
    /\ op = prev[1].op
    /\ body = prev[1].body

\* C20: convergence.  After a create invocation that succeeded (Create,
\* Update or NoOp) the repository holds one matching hook whose event set is
\* the desired one, and the next invocation, the same create, chooses NoOp;
\* after a delete invocation that succeeded (Delete or AlreadyAbsent) no hook
\* matches, and the next invocation, the same delete, chooses AlreadyAbsent.
C20_Convergence ==
    /\ (stdout # <<>> /\ op = "create") =>
           \E i \in DOMAIN remote :
               /\ IsMatch(remote[i].config, body[1].config)
               /\ Range(remote[i].events) = Range(body[1].events)
               /\ \A j \in DOMAIN remote :
                      IsMatch(remote[j].config, body[1].config) => j = i
    /\ (stdout # <<>> /\ op = "delete") =>
           \A i \in DOMAIN remote : ~IsMatch(remote[i].config, body[1].config)
    /\ (RepeatsSuccess /\ Listed /\ op = "create") =>
           /\ prev[1].action \in {"Create", "Update", "NoOp"}
           /\ action = "NoOp"
    /\ (RepeatsSuccess /\ Listed /\ op = "delete") =>
           /\ prev[1].action \in {"Delete", "AlreadyAbsent"}
           /\ action = "AlreadyAbsent"

\* An Update was followed by the same create, which chose NoOp; the witness
\* of Create then NoOp is C8_Witness.
C20_Witness ==
    /\ RepeatsSuccess
    /\ prev[1].action = "Update"
    /\ action = "NoOp"
    /\ stdout # <<>>

\* A Delete was followed by the same delete, which chose AlreadyAbsent.
C20_WitnessDelete ==
    /\ RepeatsSuccess
    /\ prev[1].action = "Delete"
    /\ action = "AlreadyAbsent"
====
